---- MODULE Spec2Model ----
(***************************************************************************)
(* Model of Music_Recommender_System.py: the catalog lookup, the seed      *)
(* mean vector, the two fitted scalers, the distance ranking and the       *)
(* filter loop of recommend_songs, and the Recommend button handler that   *)
(* calls it.                                                               *)
(*                                                                         *)
(* Representation.  A song name is a sequence of one-letter strings, so    *)
(* that str.lower() is computed letter by letter.  Two of the fifteen      *)
(* number_cols are kept (valence, year); every operator is written over    *)
(* number_cols and does not depend on how many there are.  The scalers     *)
(* work over the rationals and a square root; the model keeps exact        *)
(* integer numerators and states the denominator next to each of them.     *)
(* Floating point rounding is not modelled.                                *)
(***************************************************************************)
EXTENDS Integers, Sequences, FiniteSets

VARIABLES
    data,                   \* the catalog, line 9: a sequence of rows
    min_max_scaler,         \* line 66-67: fitted MinMaxScaler
    standard_scaler,        \* line 70-71: fitted StandardScaler
    scaled_normalized_data, \* line 71: the scaled catalog matrix
    argsort_ties,           \* how this build's np.argsort orders equal keys
    pc,                     \* "loaded" | "ready" | "called"
    op,                     \* the operation whose result the state holds
    seed_songs,             \* argument of the last recommend_songs call
    n_recommendations,      \* argument of the last recommend_songs call
    rec_songs,              \* local of recommend_songs: selected row numbers
    result,                 \* what the last call returned or raised
    lookup_name,            \* argument of the last get_song_data call
    song_data,              \* what the last get_song_data call returned
    ui,                     \* what the Recommend handler showed
    earlier                 \* a returned recommendation the caller kept

vars == <<data, min_max_scaler, standard_scaler, scaled_normalized_data,
          argsort_ties, pc, op, seed_songs, n_recommendations, rec_songs,
          result, lookup_name, song_data, ui, earlier>>

globals == <<data, min_max_scaler, standard_scaler, scaled_normalized_data>>

-----------------------------------------------------------------------------
(* Bounds of the model. *)

MaxRows == 3

MaxSeeds == 2

MaxN == 2

-----------------------------------------------------------------------------
(* Names and rows. *)

number_cols == <<"valence", "year">>

metadata_cols == <<"name", "artists", "year">>

NumCol == {number_cols[c] : c \in 1..Len(number_cols)}

LowerChar(ch) ==
    CASE ch = "A" -> "a"
      [] ch = "B" -> "b"
      [] OTHER -> ch

\* str.lower()
Lower(name) == [k \in 1..Len(name) |-> LowerChar(name[k])]

NameA == <<"A">>

Namea == <<"a">>

Nameb == <<"b">>

EmptyName == << >>

CatalogNames == {NameA, Namea, Nameb}

Song(name, valence, year) ==
    [name |-> name, artists |-> "x", year |-> year, valence |-> valence]

\* the rows a catalog is made of: each name with two feature vectors, each
\* feature vector under two names
SongRows ==
    {Song(Nameb, 1, 0), Song(Nameb, 0, 1),
     Song(NameA, 3, 0), Song(NameA, 1, 0),
     Song(Namea, 0, 1), Song(Namea, 3, 0)}

\* the rows of the catalogs on which a caller keeps an earlier result
KeptRows == {Song(NameA, 1, 0), Song(Nameb, 0, 1)}

Range(s) == {s[k] : k \in 1..Len(s)}

SeqsUpTo(S, n) == UNION {[1..m -> S] : m \in 0..n}

\* the sum of the entries of a sequence of numbers
Sum(s) ==
    LET RECURSIVE Acc(_)
        Acc(k) == IF k = 0 THEN 0 ELSE s[k] + Acc(k - 1)
    IN Acc(Len(s))

\* the product of the entries of a sequence of numbers
Product(s) ==
    LET RECURSIVE Acc(_)
        Acc(k) == IF k = 0 THEN 1 ELSE s[k] * Acc(k - 1)
    IN Acc(Len(s))

MinOf(S) == CHOOSE x \in S : \A y \in S : x <= y

MaxOf(S) == CHOOSE x \in S : \A y \in S : x >= y

-----------------------------------------------------------------------------
(* get_song_data, lines 16-20.  Row numbers stand for the rows; 0 is None. *)

None == 0

\* a lookup that compares the stored names as they are
get_song_data_exact(name, d) ==
    LET matching == {i \in 1..Len(d) : d[i].name = name}
    IN IF matching = {} THEN None ELSE MinOf(matching)

get_song_data(name, d) ==
    LET matching == {i \in 1..Len(d) : Lower(d[i].name) = name}
    IN IF matching = {} THEN None ELSE MinOf(matching)

-----------------------------------------------------------------------------
(* get_mean_vector, lines 23-33.                                           *)
(* kind "None": a seed did not resolve (line 29).                          *)
(* kind "nan":  np.mean of an empty array, a scalar nan (line 33).         *)
(* kind "vec":  the column means, kept as column sums num over k seeds.    *)

MeanVector(kind, num, k) == [kind |-> kind, num |-> num, k |-> k]

\* a mean vector that passes over the seeds that do not resolve
get_mean_vector_skipping(song_list, d) ==
    LET known == SelectSeq(song_list, LAMBDA song : get_song_data(song.name, d) # None)
    IN IF Len(known) = 0
       THEN MeanVector("nan", [c \in NumCol |-> 0], 0)
       ELSE MeanVector("vec",
                [c \in NumCol |->
                    Sum([s \in 1..Len(known) |->
                            d[get_song_data(known[s].name, d)][c]])],
                Len(known))

get_mean_vector(song_list, d) ==
    LET found == [s \in 1..Len(song_list) |-> get_song_data(song_list[s].name, d)]
    IN IF \E s \in 1..Len(song_list) : found[s] = None
       THEN MeanVector("None", [c \in NumCol |-> 0], 0)
       ELSE IF Len(song_list) = 0
       THEN MeanVector("nan", [c \in NumCol |-> 0], 0)
       ELSE MeanVector("vec",
                [c \in NumCol |->
                    Sum([s \in 1..Len(song_list) |-> d[found[s]][c]])],
                Len(song_list))

-----------------------------------------------------------------------------
(* The scalers, lines 66-71.                                               *)
(*                                                                         *)
(* MinMaxScaler: data_min and data_range per column; sklearn replaces a    *)
(* zero range by 1.  A column value x is mapped to (x - data_min)/range.   *)
(*                                                                         *)
(* StandardScaler, fitted on the min-max scaled catalog of n rows:         *)
(*   mean_ = mean_num / (n * range),  mean_num = sum of (x - data_min)     *)
(*   var_  = var_num / (n * range)^2,                                      *)
(*   var_num = n * sum of (x - data_min)^2 - mean_num^2                    *)
(* and scale_ = sqrt(var_), replaced by 1 when var_ = 0.                   *)
(*                                                                         *)
(* A vector is kept as numerators num[c] over a common count k:            *)
(*   raw vector          value num[c] / k                                  *)
(*   min-max scaled      value num[c] / (k * range[c])                     *)
(*   standardized        value num[c] / (k * Den[c]),                      *)
(*   Den[c]^2 = Den2[c] = var_num[c], or (n * range[c])^2 when var_ = 0.   *)

Vector(num, k) == [num |-> num, k |-> k]

RowVector(row) == Vector([c \in NumCol |-> row[c]], 1)

Unfitted == [fitted |-> FALSE]

Column(d, c) == {d[i][c] : i \in 1..Len(d)}

HandleZeros(x) == IF x = 0 THEN 1 ELSE x

\* MinMaxScaler().fit
min_max_fit(d) ==
    [fitted     |-> TRUE,
     data_min   |-> [c \in NumCol |-> MinOf(Column(d, c))],
     data_range |-> [c \in NumCol |->
                        HandleZeros(MaxOf(Column(d, c)) - MinOf(Column(d, c)))]]

\* fit_transform in the place of transform: the scaler is fitted again, on X
min_max_transform_refit(scaler, X) ==
    [scaler |-> [fitted     |-> TRUE,
                 data_min   |-> [c \in NumCol |-> X.num[c] \div X.k],
                 data_range |-> [c \in NumCol |-> 1]],
     X      |-> Vector([c \in NumCol |-> 0], X.k)]

\* MinMaxScaler.transform: the scaler after the call and the returned vector
min_max_transform(scaler, X) ==
    [scaler |-> scaler,
     X      |-> Vector([c \in NumCol |-> X.num[c] - X.k * scaler.data_min[c]],
                       X.k)]

\* StandardScaler().fit on the min-max scaled rows (each with k = 1)
standard_fit(normalized) ==
    LET n == Len(normalized)
        mean_num == [c \in NumCol |->
                        Sum([i \in 1..n |-> normalized[i].num[c]])]
        sq_num == [c \in NumCol |->
                        Sum([i \in 1..n |-> normalized[i].num[c] * normalized[i].num[c]])]
    IN [fitted         |-> TRUE,
        n_samples_seen |-> n,
        mean_num       |-> mean_num,
        var_num        |-> [c \in NumCol |->
                               n * sq_num[c] - mean_num[c] * mean_num[c]]]

\* StandardScaler.transform: the scaler after the call and the returned vector
standard_transform(scaler, X) ==
    [scaler |-> scaler,
     X      |-> Vector([c \in NumCol |->
                           scaler.n_samples_seen * X.num[c] - X.k * scaler.mean_num[c]],
                       X.k)]

\* the square of the denominator of a standardized column
Den2(c) ==
    IF standard_scaler.var_num[c] = 0
    THEN (standard_scaler.n_samples_seen * min_max_scaler.data_range[c])
         * (standard_scaler.n_samples_seen * min_max_scaler.data_range[c])
    ELSE standard_scaler.var_num[c]

-----------------------------------------------------------------------------
(* cdist(..., 'euclidean'), line 51.  The squared distance between the     *)
(* scaled center (count k) and the scaled catalog row i (count 1) is       *)
(*   sum over c of (k * row[c] - center[c])^2 / (k^2 * Den2[c]).           *)
(* cdist returns it times k^2 * product of all Den2, which is positive     *)
(* and the same for every row, so the order of the rows is the order of    *)
(* their Euclidean distances.                                              *)

cdist(center, scaled) ==
    LET m == Len(number_cols)
        den2 == [c \in 1..m |-> Den2(number_cols[c])]
        others == [c \in 1..m |->
                      Product([b \in 1..m |-> IF b = c THEN 1 ELSE den2[b]])]
        diff(i, c) == center.k * scaled[i].num[number_cols[c]]
                      - center.num[number_cols[c]]
    IN [i \in 1..Len(scaled) |->
           Sum([c \in 1..m |-> diff(i, c) * diff(i, c) * others[c]])]

\* a ranking by descending distance
argsort_descending(distances) ==
    LET n == Len(distances)
        Before(i, j) == \/ distances[i] > distances[j]
                        \/ /\ distances[i] = distances[j]
                           /\ argsort_ties[i] < argsort_ties[j]
        Place(i) == 1 + Cardinality({j \in 1..n : Before(j, i)})
    IN [p \in 1..n |-> CHOOSE i \in 1..n : Place(i) = p]

(* np.argsort, line 52: the row numbers by ascending distance.  The        *)
(* default kind is not a stable sort, so the order among equal distances   *)
(* is the build's: argsort_ties ranks the rows among equals.               *)
argsort(distances) ==
    LET n == Len(distances)
        Before(i, j) == \/ distances[i] < distances[j]
                        \/ /\ distances[i] = distances[j]
                           /\ argsort_ties[i] < argsort_ties[j]
        Place(i) == 1 + Cardinality({j \in 1..n : Before(j, i)})
    IN [p \in 1..n |-> CHOOSE i \in 1..n : Place(i) = p]

-----------------------------------------------------------------------------
(* recommend_songs, lines 36-63.                                           *)

Returned(value) == [raised |-> "no", value |-> value]

Raised(exception) == [raised |-> exception, value |-> << >>]

NoResult == [raised |-> "no call", value |-> << >>]

NoEarlier == [kept |-> FALSE]

SeedNames(seeds) == {seeds[s].name : s \in 1..Len(seeds)}

\* a filter that looks at the seed names only
Eligible_seeds_only(song_name, seeds, d, rec) ==
    song_name \notin SeedNames(seeds)

\* line 58: the name is in neither list (Python compares the strings as they are)
Eligible(song_name, seeds, d, rec) ==
    /\ song_name \notin SeedNames(seeds)
    /\ song_name \notin {d[rec[r]].name : r \in 1..Len(rec)}

\* a walk that leaves out the first entry of index
FilterLoop_from_second(index, seeds, d, n) ==
    LET RECURSIVE Walk(_, _)
        Walk(p, rec) ==
            IF p > Len(index) THEN rec
            ELSE IF Eligible(d[index[p]].name, seeds, d, rec)
                 THEN IF Len(rec) + 1 = n
                      THEN Append(rec, index[p])
                      ELSE Walk(p + 1, Append(rec, index[p]))
                 ELSE Walk(p + 1, rec)
    IN Walk(2, << >>)

\* lines 55-61: the walk over index
FilterLoop(index, seeds, d, n) ==
    LET RECURSIVE Walk(_, _)
        Walk(p, rec) ==
            IF p > Len(index) THEN rec
            ELSE IF Eligible(d[index[p]].name, seeds, d, rec)
                 THEN IF Len(rec) + 1 = n
                      THEN Append(rec, index[p])
                      ELSE Walk(p + 1, Append(rec, index[p]))
                 ELSE Walk(p + 1, rec)
    IN Walk(1, << >>)

\* line 63: pd.DataFrame(rec_songs)[metadata_cols].to_dict(orient='records');
\* a DataFrame built from an empty list has no columns, and selecting
\* metadata_cols from it raises KeyError
Project(rec, d) ==
    IF rec = << >>
    THEN Raised("KeyError")
    ELSE Returned([r \in 1..Len(rec) |->
                      [name    |-> d[rec[r]].name,
                       artists |-> d[rec[r]].artists,
                       year    |-> d[rec[r]].year]])

(* The whole call: what it returns or raises, its local rec_songs, and the *)
(* two scalers as the call leaves them.                                    *)
CallEffect(res, rec, mm, ss) ==
    [result |-> res, rec_songs |-> rec, min_max_scaler |-> mm, standard_scaler |-> ss]

recommend_songs(seeds, d, n) ==
    LET song_center == get_mean_vector(seeds, d)
    IN IF song_center.kind = "None"
       THEN \* line 42
            CallEffect(Returned(<< >>), << >>, min_max_scaler, standard_scaler)
       ELSE IF song_center.kind = "nan"
       THEN \* line 45: transform([nan]) is given a 1-D array and raises
            CallEffect(Raised("ValueError"), << >>, min_max_scaler, standard_scaler)
       ELSE
       LET normalized == min_max_transform(min_max_scaler,
                                           Vector(song_center.num, song_center.k))
           scaled == standard_transform(standard_scaler, normalized.X)
           distances == cdist(scaled.X, scaled_normalized_data)
           index == argsort(distances)
           rec == FilterLoop(index, seeds, d, n)
       IN CallEffect(Project(rec, d), rec, normalized.scaler, scaled.scaler)

-----------------------------------------------------------------------------
(* The program. *)

\* equal keys come out by ascending row number (as a stable sort leaves
\* them) or by descending row number
TieOrders(n) == {[i \in 1..n |-> i], [i \in 1..n |-> n + 1 - i]}

Catalogs == SeqsUpTo(SongRows, MaxRows) \ {<< >>}

\* names a caller passes as seeds: lower-cased, as the Recommend handler does
SeedNameArgs == {Namea, Nameb}

\* names a caller looks up
LookupNames == {Namea, Nameb, NameA}

SeedArgs == SeqsUpTo([name : SeedNameArgs], MaxSeeds)

NArgs == (-1)..MaxN

\* the script up to line 9: the catalog is read, nothing is fitted yet
Init ==
    /\ data \in Catalogs
    /\ argsort_ties \in TieOrders(Len(data))
    /\ min_max_scaler = Unfitted
    /\ standard_scaler = Unfitted
    /\ scaled_normalized_data = << >>
    /\ pc = "loaded"
    /\ op = "none"
    /\ seed_songs = << >>
    /\ n_recommendations = 0
    /\ rec_songs = << >>
    /\ result = NoResult
    /\ lookup_name = EmptyName
    /\ song_data = None
    /\ ui = "none"
    /\ earlier = NoEarlier

\* lines 66-71
Fit ==
    /\ pc = "loaded"
    /\ LET mm == min_max_fit(data)
           normalized_data ==
               [i \in 1..Len(data) |-> min_max_transform(mm, RowVector(data[i])).X]
           ss == standard_fit(normalized_data)
       IN /\ min_max_scaler' = mm
          /\ standard_scaler' = ss
          /\ scaled_normalized_data' =
                [i \in 1..Len(data) |-> standard_transform(ss, normalized_data[i]).X]
    /\ pc' = "ready"
    /\ UNCHANGED <<data, argsort_ties, op, seed_songs, n_recommendations,
                   rec_songs, result, lookup_name, song_data, ui, earlier>>

\* the kept result, marked once a call with other arguments has followed it
AfterCall(seeds, n) ==
    IF earlier = NoEarlier
       \/ (earlier.seed_songs = seeds /\ earlier.n_recommendations = n)
    THEN earlier
    ELSE [earlier EXCEPT !.between = TRUE]

\* a caller calls recommend_songs(seeds, data, n)
CallRecommendSongs ==
    /\ pc = "ready"
    /\ \E seeds \in SeedArgs, n \in NArgs :
          \E e \in {recommend_songs(seeds, data, n)} :
             /\ seed_songs' = seeds
             /\ n_recommendations' = n
             /\ rec_songs' = e.rec_songs
             /\ result' = e.result
             /\ min_max_scaler' = e.min_max_scaler
             /\ standard_scaler' = e.standard_scaler
             /\ earlier' = AfterCall(seeds, n)
    /\ pc' = "called"
    /\ op' = "recommend_songs"
    /\ UNCHANGED <<data, scaled_normalized_data, argsort_ties, lookup_name,
                   song_data, ui>>

\* a caller calls get_song_data(name, data)
CallGetSongData ==
    /\ pc = "ready"
    /\ \E name \in LookupNames :
          /\ lookup_name' = name
          /\ song_data' = get_song_data(name, data)
    /\ pc' = "called"
    /\ op' = "get_song_data"
    /\ UNCHANGED <<globals, argsort_ties, seed_songs, n_recommendations,
                   rec_songs, result, ui, earlier>>

(* The Recommend button, lines 79-122, with the slider of line 102 and the *)
(* radio selection of lines 80-97.  song_names starts empty on every run   *)
(* of the script, so it holds the selected song's name or nothing;         *)
(* selected = 0 stands for no selection.  The modelled names hold neither  *)
(* " by " nor white space, so lines 92 and 105 leave them as they are.     *)
Slider == 1..(IF MaxN < 30 THEN MaxN ELSE 30)

RecommendButton ==
    /\ pc = "ready"
    /\ \E selected \in 0..Len(data), n \in Slider :
          LET song_names == IF selected = 0 THEN EmptyName ELSE data[selected].name
              input_song_names ==
                  IF song_names = EmptyName THEN << >> ELSE <<song_names>>
              lowered == [k \in 1..Len(input_song_names) |->
                             [name |-> Lower(input_song_names[k])]]
              seeds == SelectSeq(lowered, LAMBDA song : song.name # EmptyName)
          IN \E e \in {recommend_songs(seeds, data, n)} :
             IF seeds = << >>
             THEN /\ ui' = "Please enter at least one song name."
                  /\ UNCHANGED <<seed_songs, n_recommendations, rec_songs, result,
                                 min_max_scaler, standard_scaler, earlier>>
             ELSE /\ seed_songs' = seeds
                  /\ n_recommendations' = n
                  /\ rec_songs' = e.rec_songs
                  /\ result' = e.result
                  /\ min_max_scaler' = e.min_max_scaler
                  /\ standard_scaler' = e.standard_scaler
                  /\ earlier' = AfterCall(seeds, n)
                  /\ ui' = IF e.result.raised # "no" THEN e.result.raised
                           ELSE IF e.result.value = << >>
                           THEN "No recommendations available based on the provided songs."
                           ELSE "Recommended Songs"
    /\ pc' = "called"
    /\ op' = "Recommend"
    /\ UNCHANGED <<data, scaled_normalized_data, argsort_ties, lookup_name,
                   song_data>>

\* the call returns to its caller, which drops the result
Return ==
    /\ pc = "called"
    /\ pc' = "ready"
    /\ op' = "none"
    /\ seed_songs' = << >>
    /\ n_recommendations' = 0
    /\ rec_songs' = << >>
    /\ result' = NoResult
    /\ lookup_name' = EmptyName
    /\ song_data' = None
    /\ ui' = "none"
    /\ UNCHANGED <<globals, argsort_ties, earlier>>

Next ==
    \/ Fit
    \/ CallRecommendSongs
    \/ CallGetSongData
    \/ RecommendButton
    \/ Return

Spec == Init /\ [][Next]_vars

(* The program under a caller of recommend_songs that keeps one returned   *)
(* recommendation (its arguments and what came back) to compare later      *)
(* calls with.                                                             *)
Keep ==
    /\ pc = "called"
    /\ result.raised # "no call"
    /\ earlier = NoEarlier
    /\ earlier' = [kept |-> TRUE, seed_songs |-> seed_songs,
                   n_recommendations |-> n_recommendations, result |-> result,
                   between |-> FALSE]
    /\ pc' = "ready"
    /\ op' = "none"
    /\ seed_songs' = << >>
    /\ n_recommendations' = 0
    /\ rec_songs' = << >>
    /\ result' = NoResult
    /\ lookup_name' = EmptyName
    /\ song_data' = None
    /\ ui' = "none"
    /\ UNCHANGED <<globals, argsort_ties>>

InitKept == Init /\ Range(data) \subseteq KeptRows

NextKept ==
    \/ Fit
    \/ CallRecommendSongs
    \/ Return
    \/ Keep

SpecKept == InitKept /\ [][NextKept]_vars

-----------------------------------------------------------------------------
(* What the properties speak about, stated from the catalog itself.        *)

\* a recommend_songs call has been made and the state holds its outcome
RecommendCalled == pc = "called" /\ result.raised # "no call"

\* the call returned a value
HasReturned == RecommendCalled /\ result.raised = "no"

\* the rows a name resolves to: the stored name, lower-cased, is the name
Matches(name) == {i \in 1..Len(data) : Lower(data[i].name) = name}

AllSeedsResolve == \A s \in 1..Len(seed_songs) : Matches(seed_songs[s].name) # {}

SeedRow(s) == MinOf(Matches(seed_songs[s].name))

\* the seed center times the number of seeds
SeedSum(c) == Sum([s \in 1..Len(seed_songs) |-> data[SeedRow(s)][c]])

\* the variance of a catalog column times the square of the number of rows
Spread(c) ==
    Len(data) * Sum([i \in 1..Len(data) |-> data[i][c] * data[i][c]])
    - Sum([i \in 1..Len(data) |-> data[i][c]]) * Sum([i \in 1..Len(data) |-> data[i][c]])

Spreads == [c \in 1..Len(number_cols) |-> Spread(number_cols[c])]

SeedSums == [c \in 1..Len(number_cols) |-> SeedSum(number_cols[c])]

(* Min-max scaling followed by standardization maps a column value x to    *)
(* (x - mean) / deviation, and every value of a constant column to the     *)
(* same number.  The squared Euclidean distance of a scaled row from the   *)
(* scaled seed center is the sum over the columns that are not constant    *)
(* of (x[c] - center[c])^2 / variance[c].  ScaledDist2 is that distance    *)
(* times a positive number that is the same for every row of the catalog.  *)
ScaledDist2(row, spread, sum, k) ==
    LET m == Len(number_cols)
        others(c) == Product([b \in 1..m |->
                                 IF b = c \/ spread[b] = 0 THEN 1 ELSE spread[b]])
        diff(c) == k * row[number_cols[c]] - sum[c]
    IN Sum([c \in 1..m |->
               IF spread[c] = 0 THEN 0 ELSE diff(c) * diff(c) * others(c)])

\* the squared distance of the unscaled row from the unscaled center, times
\* the square of the number of seeds
RawDist2(row, sum, k) ==
    LET diff(c) == k * row[number_cols[c]] - sum[c]
    IN Sum([c \in 1..Len(number_cols) |-> diff(c) * diff(c)])

\* the scaled distance of every catalog row from the center of seed_songs
ScaledDistances ==
    {[i \in 1..Len(data) |-> ScaledDist2(data[i], spread, sum, Len(seed_songs))] :
        spread \in {Spreads}, sum \in {SeedSums}}

RawDistances ==
    {[i \in 1..Len(data) |-> RawDist2(data[i], sum, Len(seed_songs))] :
        sum \in {SeedSums}}

\* the returned records are the metadata of the selected rows, in their order
RecordsAreRecSongs ==
    /\ Len(result.value) = Len(rec_songs)
    /\ \A r \in 1..Len(rec_songs) :
          /\ rec_songs[r] \in 1..Len(data)
          /\ result.value[r] = [name    |-> data[rec_songs[r]].name,
                                artists |-> data[rec_songs[r]].artists,
                                year    |-> data[rec_songs[r]].year]

Selected == Range(rec_songs)

-----------------------------------------------------------------------------
(* C1: with a non-empty seed list whose names all resolve, no returned     *)
(* record has a name equal, letter case ignored, to the name of a seed.    *)
C1_NoSeedNameInResult ==
    (HasReturned /\ seed_songs # << >> /\ AllSeedsResolve)
    => \A r \in 1..Len(result.value), s \in 1..Len(seed_songs) :
          Lower(result.value[r].name) # Lower(seed_songs[s].name)

(* C2: when a seed name matches no catalog row, recommend_songs returns    *)
(* the empty list, whatever the other seeds are and wherever it stands.    *)
C2_UnresolvedSeedGivesEmpty ==
    (RecommendCalled /\ ~AllSeedsResolve) => result = Returned(<< >>)

\* two seeds, the first resolves and the second does not
C2_Witness ==
    /\ RecommendCalled
    /\ Len(seed_songs) = 2
    /\ Matches(seed_songs[1].name) # {}
    /\ Matches(seed_songs[2].name) = {}
    /\ n_recommendations >= 1
    /\ result = Returned(<< >>)

(* C3: the returned records are the selected rows in order, and their      *)
(* scaled distances from the scaled seed center never decrease along the   *)
(* result.                                                                 *)
C3_ResultByAscendingDistance ==
    HasReturned =>
        /\ RecordsAreRecSongs
        /\ rec_songs # << >> =>
              \A dist \in ScaledDistances : \A i, j \in 1..Len(rec_songs) :
                 i < j => dist[rec_songs[i]] <= dist[rec_songs[j]]

\* two records at different scaled distances, which the unscaled distances
\* would put the other way round
C3_Witness ==
    /\ HasReturned
    /\ Len(rec_songs) >= 2
    /\ \E dist \in ScaledDistances, raw \in RawDistances :
          /\ dist[rec_songs[1]] < dist[rec_songs[2]]
          /\ raw[rec_songs[1]] > raw[rec_songs[2]]

(* C4 as claimed: no two returned records have the same name, letter case  *)
(* ignored.                                                                *)
C4_NoTwoNamesEqualIgnoringCase ==
    HasReturned =>
        \A i, j \in 1..Len(result.value) :
            i # j => Lower(result.value[i].name) # Lower(result.value[j].name)

(* C4 amended: no two returned records have the same name, the names       *)
(* compared letter for letter.                                             *)
C4_NoTwoNamesEqual ==
    HasReturned =>
        \A i, j \in 1..Len(result.value) :
            i # j => result.value[i].name # result.value[j].name

\* two catalog rows share a name that is no seed name; it is returned once
C4_Witness ==
    /\ HasReturned
    /\ n_recommendations >= 2
    /\ \E i, j \in 1..Len(data) :
          /\ i # j
          /\ data[i].name = data[j].name
          /\ data[i].name \notin SeedNames(seed_songs)
          /\ Cardinality({r \in 1..Len(result.value) :
                             result.value[r].name = data[i].name}) = 1

\* the names of the catalog that are not seed names
AvailableNames == {data[i].name : i \in 1..Len(data)} \ SeedNames(seed_songs)

(* C5: with resolvable seeds and n_recommendations >= 1 the call returns   *)
(* at most n_recommendations records, and all the available names (none,   *)
(* if there is none) when they are fewer, without failing.                 *)
C5_AtMostNAndAllAvailable ==
    (RecommendCalled /\ seed_songs # << >> /\ AllSeedsResolve
     /\ n_recommendations >= 1)
    => /\ result.raised = "no"
       /\ Len(result.value) <= n_recommendations
       /\ Cardinality(AvailableNames) < n_recommendations
            => Len(result.value) = Cardinality(AvailableNames)

(* C6: with resolvable seeds and n_recommendations <= 0 the call returns   *)
(* the empty list.                                                         *)
C6_NonPositiveNGivesEmpty ==
    (RecommendCalled /\ seed_songs # << >> /\ AllSeedsResolve
     /\ n_recommendations <= 0)
    => result = Returned(<< >>)

(* C7: with an empty seed list the call returns the empty list and raises  *)
(* nothing.                                                                *)
C7_EmptySeedListGivesEmpty ==
    (RecommendCalled /\ seed_songs = << >>) => result = Returned(<< >>)

\* the first row, in storage order, of a set of rows, or None
FirstOf(rows) == IF rows = {} THEN None ELSE MinOf(rows)

(* C8 as claimed: get_song_data lower-cases the name it is given and the   *)
(* stored names, and returns the first matching row or None.               *)
C8_LookupIgnoresCaseOnBothSides ==
    (pc = "called" /\ op = "get_song_data")
    => song_data = FirstOf({i \in 1..Len(data) :
                               Lower(data[i].name) = Lower(lookup_name)})

(* C8 amended: get_song_data lower-cases the stored names only: it returns *)
(* the first row whose lower-cased name is the name as given, None when    *)
(* there is none, and so None for every name with an upper-case letter.    *)
C8_LookupLowersStoredNamesOnly ==
    (pc = "called" /\ op = "get_song_data")
    => /\ song_data = FirstOf({i \in 1..Len(data) :
                                  Lower(data[i].name) = lookup_name})
       /\ lookup_name # Lower(lookup_name) => song_data = None

\* a lower-case name found in a row stored with an upper-case letter, a
\* later row matching as well
C8_Witness ==
    /\ pc = "called"
    /\ op = "get_song_data"
    /\ song_data # None
    /\ data[song_data].name # lookup_name
    /\ \E j \in 1..Len(data) : j > song_data /\ Lower(data[j].name) = lookup_name

(* C9: a recommend_songs call leaves the catalog, both scalers and the     *)
(* scaled catalog as they were, and a call with the arguments of an        *)
(* earlier call returns what the earlier call returned, whatever was       *)
(* called in between.                                                      *)
C9_ReadOnlyAndRepeatable ==
    /\ [][(pc = "ready" /\ pc' = "called") => globals' = globals]_vars
    /\ [](( /\ RecommendCalled
            /\ earlier # NoEarlier
            /\ earlier.seed_songs = seed_songs
            /\ earlier.n_recommendations = n_recommendations)
          => result = earlier.result)

\* a call repeats the arguments of a kept call that returned two records,
\* after a call with other arguments
C9_Witness ==
    /\ RecommendCalled
    /\ earlier # NoEarlier
    /\ earlier.seed_songs = seed_songs
    /\ earlier.n_recommendations = n_recommendations
    /\ earlier.between
    /\ Len(earlier.result.value) >= 2
    /\ min_max_scaler.fitted
    /\ standard_scaler.fitted

(* C10: the result is the nearest eligible selection.  A row that is not   *)
(* selected and is strictly closer to the seed center than the last        *)
(* returned record has a seed name, or the name of a returned record that  *)
(* is at least as close; and a returned row is at minimal distance among   *)
(* the rows of its name.                                                   *)
C10_NearestEligibleSelection ==
    (HasReturned /\ rec_songs # << >>) =>
        \A dist \in ScaledDistances :
           /\ \A i \in (1..Len(data)) \ Selected :
                 dist[i] < dist[rec_songs[Len(rec_songs)]]
                 => \/ data[i].name \in SeedNames(seed_songs)
                    \/ \E r \in Selected :
                          /\ data[r].name = data[i].name
                          /\ dist[r] <= dist[i]
           /\ \A r \in Selected, i \in 1..Len(data) :
                 data[i].name = data[r].name => dist[r] <= dist[i]

\* a row left out for its name although it is strictly closer than the last
\* returned record, and strictly farther than the returned row of its name
C10_Witness ==
    /\ HasReturned
    /\ Len(rec_songs) >= 2
    /\ \E dist \in ScaledDistances : \E i \in (1..Len(data)) \ Selected :
          /\ dist[i] < dist[rec_songs[Len(rec_songs)]]
          /\ data[i].name \notin SeedNames(seed_songs)
          /\ \E r \in Selected :
                /\ data[r].name = data[i].name
                /\ dist[r] < dist[i]

====
